---- MODULE Spec2Model ----
(***************************************************************************)
(* Model of spyder/plugins/editor/extensions/docstring.py: the function    *)
(* header parser (FunctionInfo) and the numpy docstring renderer           *)
(* (DocstringExtension._generate_docstring / _generate_numpy_doc).         *)
(*                                                                         *)
(* A Python str is a sequence of one-character strings.  Positions are     *)
(* Python positions (0-based, -1 for "not found"); At, Slice, find and     *)
(* rfind carry Python's semantics, negative slice bounds included.         *)
(* Python's None is the one-element sequence <<"None">>, which no str of    *)
(* single characters equals; a None list is << <<"None">> >>.              *)
(***************************************************************************)
EXTENDS Integers, Sequences, FiniteSets, TLC

VARIABLES pc, text, has_info, n_indent, args_text, args_list,
          arg_name_list, arg_type_list, arg_value_list, return_type,
          doc_type, quote, docstring, seg, reseg

vars == <<pc, text, has_info, n_indent, args_text, args_list,
          arg_name_list, arg_type_list, arg_value_list, return_type,
          doc_type, quote, docstring, seg, reseg>>

\* ------------------------------------------------------------------ bounds
MaxBody == 4
MaxSpan == 4
MaxSeg == 5

\* ------------------------------------------------------- Python primitives
None == <<"None">>
NoneList == <<None>>

Whitespace == {" ", "\t", "\n", "\r"}

Min(a, b) == IF a < b THEN a ELSE b
Max(a, b) == IF a > b THEN a ELSE b

\* s[i] for 0 <= i < len(s)
At(s, i) == s[i + 1]

\* a slice bound as Python clamps it
SliceBound(s, i) == IF i < 0 THEN Max(i + Len(s), 0) ELSE Min(i, Len(s))

\* s[lo:hi]
Slice(s, lo, hi) == SubSeq(s, SliceBound(s, lo) + 1, SliceBound(s, hi))

\* s[lo:]
SliceFrom(s, lo) == Slice(s, lo, Len(s))

\* s.find(c, start) for a one-character c
find(s, c, start) ==
    LET hits == {i \in SliceBound(s, start)..(Len(s) - 1) : At(s, i) = c}
    IN  IF hits = {} THEN -1 ELSE CHOOSE i \in hits : \A j \in hits : i <= j

\* s.rfind(c, start, end) for a one-character c
rfind(s, c, start, end) ==
    LET hits == {i \in SliceBound(s, start)..(SliceBound(s, end) - 1) : At(s, i) = c}
    IN  IF hits = {} THEN -1 ELSE CHOOSE i \in hits : \A j \in hits : i >= j

\* s.startswith(p)
startswith(s, p) == Len(s) >= Len(p) /\ SubSeq(s, 1, Len(p)) = p

\* the positions at which sub occurs in s
Occurrences(s, sub) ==
    {i \in 0..(Len(s) - Len(sub)) : SubSeq(s, i + 1, i + Len(sub)) = sub}

\* s.find(sub)
find_str(s, sub) ==
    LET hits == Occurrences(s, sub)
    IN  IF hits = {} THEN -1 ELSE CHOOSE i \in hits : \A j \in hits : i <= j

\* s.rfind(sub)
rfind_str(s, sub) ==
    LET hits == Occurrences(s, sub)
    IN  IF hits = {} THEN -1 ELSE CHOOSE i \in hits : \A j \in hits : i >= j

RECURSIVE lstrip(_)
lstrip(s) == IF s # <<>> /\ Head(s) \in Whitespace THEN lstrip(Tail(s)) ELSE s

RECURSIVE rstrip(_)
rstrip(s) ==
    IF s # <<>> /\ s[Len(s)] \in Whitespace THEN rstrip(SubSeq(s, 1, Len(s) - 1)) ELSE s

strip(s) == rstrip(lstrip(s))

\* s.replace(old, new), old non-empty: leftmost non-overlapping occurrences
RECURSIVE replace(_, _, _)
replace(s, old, new) ==
    IF s = <<>> THEN <<>>
    ELSE IF startswith(s, old) THEN new \o replace(SubSeq(s, Len(old) + 1, Len(s)), old, new)
    ELSE <<Head(s)>> \o replace(Tail(s), old, new)

\* c * n
RECURSIVE Repeat(_, _)
Repeat(c, n) == IF n <= 0 THEN <<>> ELSE <<c>> \o Repeat(c, n - 1)

\* truth value of an optional str: None and '' are false
Truthy(s) == s # None /\ s # <<>>

\* ------------------------------------------------------ delimiter scanner
is_char_in_pairs(pos_char, pairs) ==
    \E p \in pairs : p[1] < pos_char /\ pos_char < p[2]

\* the loop of find_quote_position from position i on
RECURSIVE quote_scan(_, _, _, _, _, _)
quote_scan(s, i, is_found_left_quote, q, left_pos, pos) ==
    IF i >= Len(s) THEN [raised |-> is_found_left_quote, pos |-> pos]
    ELSE IF ~is_found_left_quote
         THEN IF At(s, i) = "'" \/ At(s, i) = "\""
              THEN quote_scan(s, i + 1, TRUE, At(s, i), i, pos)
              ELSE quote_scan(s, i + 1, FALSE, q, left_pos, pos)
         ELSE IF At(s, i) = q /\ At(s, i - 1) # "\\"
              THEN quote_scan(s, i + 1, FALSE, q, left_pos, pos \cup {<<left_pos, i>>})
              ELSE quote_scan(s, i + 1, TRUE, q, left_pos, pos)

find_quote_position(s) == quote_scan(s, 0, FALSE, "", 0, {})

\* the loop of find_bracket_position from position i on
RECURSIVE bracket_scan(_, _, _, _, _, _, _)
bracket_scan(s, i, bracket_left, bracket_right, pos_quote, pstack, pos) ==
    IF i >= Len(s) THEN [raised |-> Len(pstack) > 0, pos |-> pos]
    ELSE IF At(s, i) = bracket_left /\ ~is_char_in_pairs(i, pos_quote)
         THEN bracket_scan(s, i + 1, bracket_left, bracket_right, pos_quote,
                           Append(pstack, i), pos)
    ELSE IF At(s, i) = bracket_right /\ ~is_char_in_pairs(i, pos_quote)
         THEN IF Len(pstack) = 0
              THEN [raised |-> TRUE, pos |-> pos]
              ELSE bracket_scan(s, i + 1, bracket_left, bracket_right, pos_quote,
                                SubSeq(pstack, 1, Len(pstack) - 1),
                                pos \cup {<<pstack[Len(pstack)], i>>})
    ELSE bracket_scan(s, i + 1, bracket_left, bracket_right, pos_quote, pstack, pos)

find_bracket_position(s, bracket_left, bracket_right, pos_quote) ==
    bracket_scan(s, 0, bracket_left, bracket_right, pos_quote, <<>>, {})

\* ------------------------------------------------------ argument splitter
\* split_loop as it would be had the square-bracket map been left out of the test
RECURSIVE split_loop_no_square(_, _, _, _, _, _, _, _)
split_loop_no_square(s, idx_find_start, idx_arg_start, list, pos_round, pos_curly, pos_square, pos_quote) ==
    LET pos_comma == find(s, ",", idx_find_start)
    IN  IF pos_comma = -1
        THEN IF idx_arg_start < Len(s)
             THEN Append(list, SliceFrom(s, idx_arg_start))
             ELSE list
        ELSE IF \/ is_char_in_pairs(pos_comma, pos_round)
                \/ is_char_in_pairs(pos_comma, pos_curly)
                \/ is_char_in_pairs(pos_comma, pos_quote)
             THEN split_loop_no_square(s, pos_comma + 1, idx_arg_start, list,
                             pos_round, pos_curly, pos_square, pos_quote)
             ELSE split_loop_no_square(s, pos_comma + 1, pos_comma + 1,
                             Append(list, Slice(s, idx_arg_start, pos_comma)),
                             pos_round, pos_curly, pos_square, pos_quote)

\* split_loop as it would be had the quote map been left out of the test
RECURSIVE split_loop_no_quote(_, _, _, _, _, _, _, _)
split_loop_no_quote(s, idx_find_start, idx_arg_start, list, pos_round, pos_curly, pos_square, pos_quote) ==
    LET pos_comma == find(s, ",", idx_find_start)
    IN  IF pos_comma = -1
        THEN IF idx_arg_start < Len(s)
             THEN Append(list, SliceFrom(s, idx_arg_start))
             ELSE list
        ELSE IF \/ is_char_in_pairs(pos_comma, pos_round)
                \/ is_char_in_pairs(pos_comma, pos_curly)
                \/ is_char_in_pairs(pos_comma, pos_square)
             THEN split_loop_no_quote(s, pos_comma + 1, idx_arg_start, list,
                             pos_round, pos_curly, pos_square, pos_quote)
             ELSE split_loop_no_quote(s, pos_comma + 1, pos_comma + 1,
                             Append(list, Slice(s, idx_arg_start, pos_comma)),
                             pos_round, pos_curly, pos_square, pos_quote)

\* the "while 1" loop of split_args_text_to_list
RECURSIVE split_loop(_, _, _, _, _, _, _, _)
split_loop(s, idx_find_start, idx_arg_start, list, pos_round, pos_curly, pos_square, pos_quote) ==
    LET pos_comma == find(s, ",", idx_find_start)
    IN  IF pos_comma = -1
        THEN IF idx_arg_start < Len(s)
             THEN Append(list, SliceFrom(s, idx_arg_start))
             ELSE list
        ELSE IF \/ is_char_in_pairs(pos_comma, pos_round)
                \/ is_char_in_pairs(pos_comma, pos_curly)
                \/ is_char_in_pairs(pos_comma, pos_square)
                \/ is_char_in_pairs(pos_comma, pos_quote)
             THEN split_loop(s, pos_comma + 1, idx_arg_start, list,
                             pos_round, pos_curly, pos_square, pos_quote)
             ELSE split_loop(s, pos_comma + 1, pos_comma + 1,
                             Append(list, Slice(s, idx_arg_start, pos_comma)),
                             pos_round, pos_curly, pos_square, pos_quote)

\* split_args_text_to_list as it would be had the handler returned the empty list
split_args_text_to_list_empty_on_error(s) ==
    LET q == find_quote_position(s)
        pos_quote == q.pos
        r == find_bracket_position(s, "(", ")", pos_quote)
        c == find_bracket_position(s, "{", "}", pos_quote)
        sq == find_bracket_position(s, "[", "]", pos_quote)
    IN  IF q.raised \/ r.raised \/ c.raised \/ sq.raised
        THEN <<>>
        ELSE split_loop(s, 0, 0, <<>>, r.pos, c.pos, sq.pos, pos_quote)

\* an IndexError from any of the four scans is caught and None is returned
split_args_text_to_list(s) ==
    LET q == find_quote_position(s)
        pos_quote == q.pos
        r == find_bracket_position(s, "(", ")", pos_quote)
        c == find_bracket_position(s, "{", "}", pos_quote)
        sq == find_bracket_position(s, "[", "]", pos_quote)
    IN  IF q.raised \/ r.raised \/ c.raised \/ sq.raised
        THEN NoneList
        ELSE split_loop(s, 0, 0, <<>>, r.pos, c.pos, sq.pos, pos_quote)

\* ---------------------------------------------------- argument classifier
\* split_one_arg as it would be without the test "pos_equal > pos_colon"
split_one_arg_no_tiebreak(arg) ==
    LET pos_colon == find(arg, ":", 0)
        pos_equal == find(arg, "=", 0)
        has_value == pos_equal > -1
        has_type == pos_colon > -1
    IN  IF has_value /\ has_type
        THEN [name |-> strip(Slice(arg, 0, pos_colon)),
              type |-> strip(Slice(arg, pos_colon + 1, pos_equal)),
              value |-> strip(SliceFrom(arg, pos_equal + 1))]
        ELSE IF ~has_value /\ has_type
        THEN [name |-> strip(Slice(arg, 0, pos_colon)),
              type |-> strip(SliceFrom(arg, pos_colon + 1)),
              value |-> None]
        ELSE IF has_value /\ ~has_type
        THEN [name |-> strip(Slice(arg, 0, pos_equal)),
              type |-> None,
              value |-> strip(SliceFrom(arg, pos_equal + 1))]
        ELSE [name |-> arg, type |-> None, value |-> None]

\* one iteration of the loop of split_arg_to_name_type_value
split_one_arg(arg) ==
    LET pos_colon == find(arg, ":", 0)
        pos_equal == find(arg, "=", 0)
        has_value == pos_equal > -1
        has_type == pos_colon > -1 /\ (~has_value \/ pos_equal > pos_colon)
    IN  IF has_value /\ has_type
        THEN [name |-> strip(Slice(arg, 0, pos_colon)),
              type |-> strip(Slice(arg, pos_colon + 1, pos_equal)),
              value |-> strip(SliceFrom(arg, pos_equal + 1))]
        ELSE IF ~has_value /\ has_type
        THEN [name |-> strip(Slice(arg, 0, pos_colon)),
              type |-> strip(SliceFrom(arg, pos_colon + 1)),
              value |-> None]
        ELSE IF has_value /\ ~has_type
        THEN [name |-> strip(Slice(arg, 0, pos_equal)),
              type |-> None,
              value |-> strip(SliceFrom(arg, pos_equal + 1))]
        ELSE [name |-> arg, type |-> None, value |-> None]

\* the three lists split_arg_to_name_type_value appends, from empty lists
split_arg_to_name_type_value(list) ==
    [names |-> [i \in 1..Len(list) |-> split_one_arg(list[i]).name],
     types |-> [i \in 1..Len(list) |-> split_one_arg(list[i]).type],
     values |-> [i \in 1..Len(list) |-> split_one_arg(list[i]).value]]

\* ----------------------------------------------------- signature assembler
S_def == <<"d", "e", "f">>
S_async_def == <<"a", "s", "y", "n", "c", " ", "d", "e", "f">>

is_start_of_function(s) ==
    \E prefix \in {S_def, S_async_def} : startswith(lstrip(s), prefix)

\* the character class [a-zA-Z0-9_,()\[\] ] of the return type pattern
ReturnTypeChars ==
    {"a", "b", "c", "d", "e", "f", "g", "h", "i", "j", "k", "l", "m", "n", "o",
     "p", "q", "r", "s", "t", "u", "v", "w", "x", "y", "z", "A", "B", "C", "D",
     "E", "F", "G", "H", "I", "J", "K", "L", "M", "N", "O", "P", "Q", "R", "S",
     "T", "U", "V", "W", "X", "Y", "Z", "0", "1", "2", "3", "4", "5", "6", "7",
     "8", "9", "_", ",", "(", ")", "[", "]", " "}

\* the number of spaces [ ]* takes from position i on
RECURSIVE CountSpaces(_, _)
CountSpaces(s, i) ==
    IF i < Len(s) /\ At(s, i) = " " THEN 1 + CountSpaces(s, i + 1) ELSE 0

\* re.search(r'->[ ]*([a-zA-Z0-9_,()\[\] ]*):$', s): the leftmost match
return_type_re(s) ==
    LET n == Len(s)
        starts == {p \in 0..(n - 3) :
                      /\ At(s, p) = "-"
                      /\ At(s, p + 1) = ">"
                      /\ At(s, n - 1) = ":"
                      /\ \A j \in (p + 2)..(n - 2) : At(s, j) \in ReturnTypeChars}
    IN  IF starts = {}
        THEN [matched |-> FALSE, group0 |-> <<>>, group1 |-> <<>>]
        ELSE LET p == CHOOSE x \in starts : \A y \in starts : x <= y
             IN  [matched |-> TRUE,
                  group0 |-> SliceFrom(s, p),
                  group1 |-> Slice(s, p + 2 + CountSpaces(s, p + 2), n - 1)]

S_crlf == <<"\r", "\n">>
S_lf == <<"\n">>

\* FunctionInfo.__init__
FunctionInfoInit ==
    [has_info |-> FALSE, n_indent |-> 0, args_text |-> <<>>, args_list |-> <<>>,
     arg_name_list |-> <<>>, arg_type_list |-> <<>>, arg_value_list |-> <<>>,
     return_type |-> None]

\* the header text parse works on: stripped, line ends removed
header_text(t) == replace(replace(strip(t), S_crlf, <<>>), S_lf, <<>>)

\* FunctionInfo.parse: the fields of the object when parse returns
parse(t) ==
    IF ~is_start_of_function(t) THEN FunctionInfoInit
    ELSE
    LET indent == find_str(t, lstrip(t))
        s == header_text(t)
        re == return_type_re(s)
        rtype == IF re.matched THEN re.group1 ELSE None
        text_end == IF re.matched THEN rfind_str(s, re.group0) ELSE Len(s)
        pos_args_start == find(s, "(", 0) + 1
        pos_args_end == rfind(s, ")", pos_args_start, text_end)
        span == Slice(s, pos_args_start, pos_args_end)
        list == split_args_text_to_list(span)
        ntv == split_arg_to_name_type_value(list)
    IN  IF list # NoneList
        THEN [has_info |-> TRUE, n_indent |-> indent, args_text |-> span,
              args_list |-> list, arg_name_list |-> ntv.names,
              arg_type_list |-> ntv.types, arg_value_list |-> ntv.values,
              return_type |-> rtype]
        ELSE [has_info |-> FALSE, n_indent |-> indent, args_text |-> span,
              args_list |-> list, arg_name_list |-> <<>>,
              arg_type_list |-> <<>>, arg_value_list |-> <<>>,
              return_type |-> rtype]

\* ------------------------------------------------------- docstring renderer
S_self == <<"s", "e", "l", "f">>
S_Parameters == <<"P", "a", "r", "a", "m", "e", "t", "e", "r", "s">>
S_dashes10 == <<"-", "-", "-", "-", "-", "-", "-", "-", "-", "-">>
S_sep == <<" ", ":", " ">>
S_type == <<"[", "t", "y", "p", "e", "]">>
S_optional == <<",", " ", "o", "p", "t", "i", "o", "n", "a", "l">>
S_description == <<"[", "d", "e", "s", "c", "r", "i", "p", "t", "i", "o", "n", "]">>
S_default == <<" ", "(", "t", "h", "e", " ", "d", "e", "f", "a", "u", "l", "t", " ", "i", "s", " ">>
S_Returns == <<"R", "e", "t", "u", "r", "n", "s">>
S_dashes7 == <<"-", "-", "-", "-", "-", "-", "-">>
S_None == <<"N", "o", "n", "e">>

\* drop_self as it would be without the test of the first name
drop_self_always(names, list) ==
    IF Len(names) > 0 THEN Tail(list) ELSE list

\* "del arg_names[0]" and its two companions, when the first name is 'self'
drop_self(names, list) ==
    IF Len(names) > 0 /\ names[1] = S_self THEN Tail(list) ELSE list

\* the text one iteration of the argument loop adds to arg_text
arg_lines(indent1, indent2, arg_name, arg_type, arg_value, quote3, quote3_other) ==
    indent1 \o arg_name \o S_sep
    \o (IF Truthy(arg_type) THEN arg_type ELSE S_type)
    \o (IF Truthy(arg_value) THEN S_optional ELSE <<>>)
    \o S_lf \o indent2 \o S_description
    \o (IF Truthy(arg_value)
        THEN S_default \o replace(arg_value, quote3, quote3_other) \o <<")">>
        ELSE <<>>)
    \o S_lf

RECURSIVE arg_text(_, _, _, _, _, _, _)
arg_text(indent1, indent2, names, types, values, quote3, quote3_other) ==
    IF names = <<>> THEN <<>>
    ELSE arg_lines(indent1, indent2, names[1], types[1], values[1], quote3, quote3_other)
         \o arg_text(indent1, indent2, Tail(names), Tail(types), Tail(values),
                     quote3, quote3_other)

\* the Returns section
returns_lines(indent1, indent2, rtype) ==
    S_lf \o indent1 \o S_Returns
    \o S_lf \o indent1 \o S_dashes7
    \o (IF Truthy(rtype)
        THEN S_lf \o indent1 \o rtype \o S_lf \o indent2 \o S_description \o S_lf
        ELSE S_lf \o indent1 \o S_None \o S_lf)

\* generate_numpy_doc as it would be had the Parameters heading been decided
\* before the receiver is removed
generate_numpy_doc_header_before_drop(indent, names0, types0, values0, rtype, quote3, quote3_other) ==
    LET names == drop_self(names0, names0)
        types == drop_self(names0, types0)
        values == drop_self(names0, values0)
        indent1 == Repeat(" ", 4 + indent)
        indent2 == Repeat(" ", 8 + indent)
    IN  [doc |-> S_lf
                 \o (IF Len(names0) > 0
                     THEN S_lf \o indent1 \o S_Parameters
                          \o S_lf \o indent1 \o S_dashes10 \o S_lf
                     ELSE <<>>)
                 \o arg_text(indent1, indent2, names, types, values, quote3, quote3_other)
                 \o returns_lines(indent1, indent2, rtype)
                 \o S_lf \o indent1 \o quote3,
         names |-> names, types |-> types, values |-> values]

\* _generate_numpy_doc: the text returned and the three lists as it leaves them
generate_numpy_doc(indent, names0, types0, values0, rtype, quote3, quote3_other) ==
    LET names == drop_self(names0, names0)
        types == drop_self(names0, types0)
        values == drop_self(names0, values0)
        indent1 == Repeat(" ", 4 + indent)
        indent2 == Repeat(" ", 8 + indent)
    IN  [doc |-> S_lf
                 \o (IF Len(names) > 0
                     THEN S_lf \o indent1 \o S_Parameters
                          \o S_lf \o indent1 \o S_dashes10 \o S_lf
                     ELSE <<>>)
                 \o arg_text(indent1, indent2, names, types, values, quote3, quote3_other)
                 \o returns_lines(indent1, indent2, rtype)
                 \o S_lf \o indent1 \o quote3,
         names |-> names, types |-> types, values |-> values]

\* ------------------------------------------------------------------ inputs
\* the concatenation of a sequence of strings
RECURSIVE Flatten(_)
Flatten(ts) == IF ts = <<>> THEN <<>> ELSE Head(ts) \o Flatten(Tail(ts))

\* the sequences of at most n elements of S
SeqsUpTo(S, n) == UNION {[1..k -> S] : k \in 0..n}

\* header lines: a prefix, tokens, and the ':' the editor requires the
\* line above the docstring to end with
Headers(prefixes, tokens, n) ==
    {p \o Flatten(ts) \o <<":">> : p \in prefixes, ts \in SeqsUpTo(tokens, n)}

P_def_f == <<"d", "e", "f", " ", "f">>
P_def_f_open == <<"d", "e", "f", " ", "f", "(">>
P_indented_def_f_open == <<" ", "d", "e", "f", " ", "f", "(">>
P_class_f_open == <<"c", "l", "a", "s", "s", " ", "f", "(">>

HeaderPrefixes == {P_def_f, P_def_f_open, P_class_f_open}
HeaderTokens == {<<"(">>, <<")">>, <<",">>, <<"a">>, <<"-", ">">>, <<"'">>, <<"[">>, <<"]">>}

ArgsPrefixes == {P_def_f_open, P_indented_def_f_open}
ArgsTokens == {<<")">>, <<",">>, <<"a">>, S_self, <<" ">>, <<"=">>, <<":">>, <<"-", ">">>}

SpanChars == {"a", ",", "'", "\"", "\\", "(", ")", "[", "]", "{", "}"}
SegChars == {"a", ":", "=", " ", "'", "[", "]"}

DocTypes == {"numpy", "one-line"}
Quotes == {"\"", "'"}

\* ------------------------------------------------------------ state machine
InitFields ==
    /\ pc = "start"
    /\ has_info = FALSE
    /\ n_indent = 0
    /\ arg_name_list = <<>>
    /\ arg_type_list = <<>>
    /\ arg_value_list = <<>>
    /\ return_type = None
    /\ doc_type = ""
    /\ quote = ""
    /\ docstring = None
    /\ seg = <<>>
    /\ reseg = <<>>

Init ==
    /\ text \in Headers(HeaderPrefixes, HeaderTokens, MaxBody)
    /\ args_text = <<>>
    /\ args_list = <<>>
    /\ InitFields

InitArgs ==
    /\ text \in Headers(ArgsPrefixes, ArgsTokens, MaxBody)
    /\ args_text = <<>>
    /\ args_list = <<>>
    /\ InitFields

InitSplit ==
    /\ text = <<>>
    /\ args_text \in SeqsUpTo(SpanChars, MaxSpan)
    /\ args_list = <<>>
    /\ InitFields

InitClassify ==
    /\ text = <<>>
    /\ args_text = <<>>
    /\ args_list \in {<<s>> : s \in {x \in SeqsUpTo(SegChars, MaxSeg) :
                                      x = <<>> \/ split_args_text_to_list(x) = <<x>>}}
    /\ InitFields

\* func_info.parse(func_text), called when func_text is not empty
Parse ==
    /\ pc = "start"
    /\ text # <<>>
    /\ LET r == parse(text)
       IN  /\ has_info' = r.has_info
           /\ n_indent' = r.n_indent
           /\ args_text' = r.args_text
           /\ args_list' = r.args_list
           /\ arg_name_list' = r.arg_name_list
           /\ arg_type_list' = r.arg_type_list
           /\ arg_value_list' = r.arg_value_list
           /\ return_type' = r.return_type
    /\ pc' = "parsed"
    /\ UNCHANGED <<text, doc_type, quote, docstring, seg, reseg>>

\* _generate_docstring from "if func_info.has_info" on
GenerateDocstring ==
    /\ pc = "parsed"
    /\ \E dt \in DocTypes, q \in Quotes :
          LET quote3 == Repeat(q, 3)
              quote3_other == IF q = "\"" THEN Repeat("'", 3) ELSE Repeat("\"", 3)
              r == generate_numpy_doc(n_indent, arg_name_list, arg_type_list,
                                      arg_value_list, return_type, quote3, quote3_other)
          IN  /\ doc_type' = dt
              /\ quote' = q
              /\ IF has_info /\ dt = "numpy"
                 THEN /\ docstring' = r.doc
                      /\ arg_name_list' = r.names
                      /\ arg_type_list' = r.types
                      /\ arg_value_list' = r.values
                 ELSE /\ docstring' = IF has_info /\ dt = "one-line" THEN quote3 ELSE None
                      /\ UNCHANGED <<arg_name_list, arg_type_list, arg_value_list>>
    /\ pc' = "rendered"
    /\ UNCHANGED <<text, has_info, n_indent, args_text, args_list, return_type, seg, reseg>>

\* split_args_text_to_list on a parameter span
SplitArgsText ==
    /\ pc = "start"
    /\ args_list' = split_args_text_to_list(args_text)
    /\ pc' = "split"
    /\ UNCHANGED <<text, has_info, n_indent, args_text, arg_name_list, arg_type_list,
                   arg_value_list, return_type, doc_type, quote, docstring, seg, reseg>>

\* split_args_text_to_list on one of the segments it returned
Resplit ==
    /\ pc = "split"
    /\ args_list # NoneList
    /\ \E k \in 1..Len(args_list) :
          /\ seg' = args_list[k]
          /\ reseg' = split_args_text_to_list(args_list[k])
    /\ pc' = "resplit"
    /\ UNCHANGED <<text, has_info, n_indent, args_text, args_list, arg_name_list,
                   arg_type_list, arg_value_list, return_type, doc_type, quote, docstring>>

\* split_arg_to_name_type_value on a list of segments
SplitArg ==
    /\ pc = "start"
    /\ LET r == split_arg_to_name_type_value(args_list)
       IN  /\ arg_name_list' = r.names
           /\ arg_type_list' = r.types
           /\ arg_value_list' = r.values
    /\ pc' = "classified"
    /\ UNCHANGED <<text, has_info, n_indent, args_text, args_list, return_type,
                   doc_type, quote, docstring, seg, reseg>>

Next == Parse \/ GenerateDocstring
NextSplit == SplitArgsText \/ Resplit
NextClassify == SplitArg

Spec == Init /\ [][Next]_vars
SpecArgs == InitArgs /\ [][Next]_vars
SpecSplit == InitSplit /\ [][NextSplit]_vars
SpecClassify == InitClassify /\ [][NextClassify]_vars

\* ------------------------------------------------------ claim vocabulary
Processed == pc \in {"parsed", "rendered"}
NumpyRendered == pc = "rendered" /\ doc_type = "numpy" /\ has_info

\* the position of the first c in s, -1 when there is none
FirstOf(s, c) ==
    IF \E i \in 1..Len(s) : s[i] = c
    THEN (CHOOSE i \in 1..Len(s) : s[i] = c /\ \A j \in 1..(i - 1) : s[j] # c) - 1
    ELSE -1

\* s without its leading and trailing whitespace
Trimmed(s) ==
    LET keep == {i \in 1..Len(s) : s[i] \notin Whitespace}
    IN  IF keep = {} THEN <<>>
        ELSE SubSeq(s, CHOOSE i \in keep : \A j \in keep : i <= j,
                       CHOOSE i \in keep : \A j \in keep : i >= j)

\* the text before position i, between positions i and j, and after position i
Before(s, i) == SubSeq(s, 1, i)
Between(s, i, j) == SubSeq(s, i + 2, j)
After(s, i) == SubSeq(s, i + 2, Len(s))

Contains(s, sub) == \E i \in 1..(Len(s) - Len(sub) + 1) : SubSeq(s, i, i + Len(sub) - 1) = sub
EndsWith(s, sub) == Len(s) >= Len(sub) /\ SubSeq(s, Len(s) - Len(sub) + 1, Len(s)) = sub

\* the quote, parenthesis, square-bracket and curly-brace maps of a span
PairMaps(s) ==
    LET q == find_quote_position(s).pos
    IN  {q, find_bracket_position(s, "(", ")", q).pos,
            find_bracket_position(s, "[", "]", q).pos,
            find_bracket_position(s, "{", "}", q).pos}

\* position i is strictly inside a pair of one of the four maps
Enclosed(s, i) == \E m \in PairMaps(s) : \E pr \in m : pr[1] < i /\ i < pr[2]

TopLevelCommas(s) == {i \in 0..(Len(s) - 1) : At(s, i) = "," /\ ~Enclosed(s, i)}
EnclosedCommas(s) == {i \in 0..(Len(s) - 1) : At(s, i) = "," /\ Enclosed(s, i)}

\* the k-th smallest element of T
Nth(T, k) == CHOOSE x \in T : Cardinality({y \in T : y < x}) = k - 1

\* the substrings of s that the positions T delimit, the one after the last included
Pieces(s, T) ==
    [k \in 1..(Cardinality(T) + 1) |->
        SubSeq(s, IF k = 1 THEN 1 ELSE Nth(T, k - 1) + 2,
                  IF k <= Cardinality(T) THEN Nth(T, k) ELSE Len(s))]

\* Pieces without its last substring when that one is empty
PiecesNoEmptyTail(s, T) ==
    LET a == Pieces(s, T)
    IN  IF a[Len(a)] = <<>> THEN SubSeq(a, 1, Len(a) - 1) ELSE a

\* the starts of a trailing return-type clause: an arrow, then only characters of
\* the class, then the ':' that ends the text
ArrowStarts(s) ==
    {a \in 0..(Len(s) - 3) :
        /\ SubSeq(s, a + 1, a + 2) = <<"-", ">">>
        /\ s[Len(s)] = ":"
        /\ \A j \in (a + 3)..(Len(s) - 1) : s[j] \in ReturnTypeChars}

\* where the parameter span has to end: the arrow clause, or the end of the text
Boundary(s) ==
    IF ArrowStarts(s) = {} THEN Len(s)
    ELSE CHOOSE a \in ArrowStarts(s) : \A b \in ArrowStarts(s) : a <= b

\* there is a '(' and, after the first one and before the boundary, a ')'
SpanLocatable(s) ==
    /\ FirstOf(s, "(") > -1
    /\ \E c \in (FirstOf(s, "(") + 1)..(Boundary(s) - 1) : At(s, c) = ")"

RECURSIVE DropSpaces(_)
DropSpaces(s) == IF s # <<>> /\ Head(s) = " " THEN DropSpaces(Tail(s)) ELSE s

\* the type text of the clause that starts at position a
TypeText(s, a) == DropSpaces(SubSeq(s, a + 3, Len(s) - 1))

\* how many more kind[1] than kind[2] lie outside the quote pairs Q before position i
Depth(s, kind, Q, i) ==
    Cardinality({j \in 0..(i - 1) : At(s, j) = kind[1] /\ ~is_char_in_pairs(j, Q)})
    - Cardinality({j \in 0..(i - 1) : At(s, j) = kind[2] /\ ~is_char_in_pairs(j, Q)})

\* a closer with nothing open, or an opener never closed
BracketFails(s, Q) ==
    \E kind \in {<<"(", ")">>, <<"[", "]">>, <<"{", "}">>} :
        \/ \E i \in 1..Len(s) : Depth(s, kind, Q, i) < 0
        \/ Depth(s, kind, Q, Len(s)) # 0

QuoteFails(s) == find_quote_position(s).raised

ScanFails(s) == QuoteFails(s) \/ BracketFails(s, find_quote_position(s).pos)

\* the names the classifier gives the segments of the state
SegmentNames == split_arg_to_name_type_value(args_list).names
SegmentTypes == split_arg_to_name_type_value(args_list).types
SegmentValues == split_arg_to_name_type_value(args_list).values

\* list without its first element when the first of names is 'self'
ReceiverDropped(names, list) ==
    IF names # <<>> /\ names[1] = <<"s", "e", "l", "f">> THEN Tail(list) ELSE list

Indent1 == Repeat(" ", 4 + n_indent)
Indent2 == Repeat(" ", 8 + n_indent)
ParametersHeading == S_lf \o Indent1 \o S_Parameters \o S_lf \o Indent1 \o S_dashes10 \o S_lf
ReturnsHeading == S_lf \o Indent1 \o S_Returns \o S_lf \o Indent1 \o S_dashes7 \o S_lf
ClosingLine == S_lf \o Indent1 \o Repeat(quote, 3)

\* ------------------------------------------------------------------ claims

\* C1: a header that starts with a definition keyword but whose parameter span
\* cannot be located (no '(' , or no ')' after the first '(' and before the
\* return-type boundary) parses to has_info = False and renders no docstring.
C1_UnlocatableSpanInvalid ==
    (Processed /\ is_start_of_function(text) /\ ~SpanLocatable(header_text(text)))
        => (~has_info /\ (pc = "rendered" => docstring = None))

\* C2 as stated: when the scans succeed the splitter returns, in order, the
\* substrings delimited by the commas that no pair of the four maps encloses,
\* the one after the last split point always included, and nothing for an
\* empty span.
C2_TrailingAlwaysIncluded ==
    (pc = "split" /\ args_list # NoneList)
        => args_list = IF args_text = <<>> THEN <<>>
                       ELSE Pieces(args_text, TopLevelCommas(args_text))

\* C2 as amended: when the scans succeed the splitter returns, in order, the
\* substrings delimited by the commas that no pair of the four maps encloses,
\* the one after the last split point included if and only if it is not empty.
C2_SplitAtTopLevelCommas ==
    (pc = "split" /\ args_list # NoneList)
        => args_list = PiecesNoEmptyTail(args_text, TopLevelCommas(args_text))

\* a span was split at a top-level comma and not at an enclosed one, and the
\* empty substring after its last top-level comma was left out
C2_Witness ==
    /\ pc = "split"
    /\ args_list # NoneList
    /\ EnclosedCommas(args_text) # {}
    /\ TopLevelCommas(args_text) # {}
    /\ args_text[Len(args_text)] = ","
    /\ Len(args_list) = Cardinality(TopLevelCommas(args_text))

\* C3: the classifier's colon/equals tie-break.  A colon before the first
\* equals gives name, type and value; an equals with no colon or with the first
\* colon after it gives name and value, no type, the colon kept in the value;
\* a colon alone gives name and type; neither gives the whole text as the name.
\* Every part the code cuts at a separator is trimmed.
C3_ColonEqualsTieBreak ==
    pc = "classified" =>
        LET arg == args_list[1]
            c == FirstOf(arg, ":")
            e == FirstOf(arg, "=")
            n == arg_name_list[1]
            t == arg_type_list[1]
            v == arg_value_list[1]
        IN  /\ (c > -1 /\ e > -1 /\ c < e) =>
                   /\ n = Trimmed(Before(arg, c))
                   /\ t = Trimmed(Between(arg, c, e))
                   /\ v = Trimmed(After(arg, e))
            /\ (e > -1 /\ (c = -1 \/ c >= e)) =>
                   /\ n = Trimmed(Before(arg, e))
                   /\ t = None
                   /\ v = Trimmed(After(arg, e))
            /\ (e = -1 /\ c > -1) =>
                   /\ n = Trimmed(Before(arg, c))
                   /\ t = Trimmed(After(arg, c))
                   /\ v = None
            /\ (e = -1 /\ c = -1) => (n = arg /\ t = None /\ v = None)

\* a segment whose only colon lies after its first equals was classified
C3_Witness ==
    /\ pc = "classified"
    /\ FirstOf(args_list[1], "=") > 0
    /\ FirstOf(args_list[1], ":") > FirstOf(args_list[1], "=")
    /\ arg_type_list[1] = None
    /\ Contains(arg_value_list[1], <<":">>)

\* C4 as stated: the argument list parse returns lacks a first parameter named
\* 'self' and holds all the other parameters in their order.
C4_ParseDropsReceiver ==
    (pc = "parsed" /\ has_info)
        => arg_name_list = ReceiverDropped(SegmentNames, SegmentNames)

\* C4 as amended: parse returns every parameter, a first 'self' included; it is
\* the numpy renderer that removes a first parameter named exactly 'self' from
\* the three lists, leaving all the others, a later 'self' too, in their order.
C4_RendererDropsReceiver ==
    /\ (pc = "parsed" /\ has_info) =>
           /\ arg_name_list = SegmentNames
           /\ arg_type_list = SegmentTypes
           /\ arg_value_list = SegmentValues
    /\ NumpyRendered =>
           /\ arg_name_list = ReceiverDropped(SegmentNames, SegmentNames)
           /\ arg_type_list = ReceiverDropped(SegmentNames, SegmentTypes)
           /\ arg_value_list = ReceiverDropped(SegmentNames, SegmentValues)

\* a header whose first and second parameters are both 'self' was rendered:
\* the first is gone, the second is kept
C4_Witness ==
    /\ NumpyRendered
    /\ SpanLocatable(header_text(text))
    /\ Len(SegmentNames) = 2
    /\ SegmentNames[1] = S_self
    /\ arg_name_list = <<S_self>>

\* C5: in every signature parse returns with has_info = True every argument
\* name is non-empty and has no leading or trailing whitespace.
C5_NamesTrimmedNonEmpty ==
    (pc = "parsed" /\ has_info)
        => \A i \in 1..Len(arg_name_list) :
               arg_name_list[i] # <<>> /\ arg_name_list[i] = Trimmed(arg_name_list[i])

\* C6: with a trailing return-type clause return_type is its type text and the
\* parameter span ends at the last ')' before the clause; without one
\* return_type is None.
C6_ReturnTypeAndSpan ==
    (pc = "parsed" /\ is_start_of_function(text)) =>
        LET s == header_text(text)
        IN  IF ArrowStarts(s) = {} THEN return_type = None
            ELSE /\ return_type = TypeText(s, Boundary(s))
                 /\ \E e \in 0..(Boundary(s) - 1) :
                        /\ At(s, e) = ")"
                        /\ \A j \in (e + 1)..(Boundary(s) - 1) : At(s, j) # ")"
                        /\ args_text = Slice(s, FirstOf(s, "(") + 1, e)

\* C7: a parameter span on which the quote scan or a bracket scan fails gives
\* has_info = False and empty argument lists, never a valid signature without
\* arguments, and no docstring.
C7_ScanFailureInvalid ==
    (Processed /\ is_start_of_function(text) /\ ScanFails(args_text))
        => /\ ~has_info
           /\ arg_name_list = <<>>
           /\ arg_type_list = <<>>
           /\ arg_value_list = <<>>
           /\ (pc = "rendered" => docstring = None)

\* a header was parsed whose span, located between its parentheses, has
\* balanced quotes and an unbalanced bracket
C7_Witness ==
    /\ pc = "parsed"
    /\ is_start_of_function(text)
    /\ SpanLocatable(header_text(text))
    /\ ~QuoteFails(args_text)
    /\ BracketFails(args_text, find_quote_position(args_text).pos)
    /\ Contains(args_text, <<"'">>)

\* C8 as stated: a numpy rendering has a Parameters section if and only if the
\* argument list after the receiver's removal is not empty, always has a
\* Returns section, and ends with the return type, or with "None" when there is
\* none, followed by a description placeholder line.
C8_NonePlusPlaceholder ==
    NumpyRendered =>
        /\ Contains(docstring, ParametersHeading) <=> arg_name_list # <<>>
        /\ Contains(docstring, ReturnsHeading)
        /\ EndsWith(docstring,
                    ReturnsHeading \o Indent1
                    \o (IF return_type # None THEN return_type ELSE S_None)
                    \o S_lf \o Indent2 \o S_description \o S_lf \o ClosingLine)

\* C8 as amended: a numpy rendering has a Parameters section if and only if the
\* argument list after the receiver's removal is not empty, always has a
\* Returns section, and ends with a non-empty return type followed by a
\* description placeholder line, or else with "None" and no placeholder line.
C8_NumpySections ==
    NumpyRendered =>
        /\ Contains(docstring, ParametersHeading) <=> arg_name_list # <<>>
        /\ Contains(docstring, ReturnsHeading)
        /\ EndsWith(docstring,
                    ReturnsHeading \o Indent1
                    \o (IF return_type # None /\ return_type # <<>>
                        THEN return_type \o S_lf \o Indent2 \o S_description
                        ELSE S_None)
                    \o S_lf \o ClosingLine)

\* a header whose only parameter is 'self' and that has no return type was
\* rendered in numpy style
C8_Witness ==
    /\ NumpyRendered
    /\ SpanLocatable(header_text(text))
    /\ SegmentNames = <<S_self>>
    /\ arg_name_list = <<>>
    /\ return_type = None
    /\ ~Contains(docstring, S_Parameters)

\* C9 as stated: splitting a segment the splitter returned succeeds and returns
\* exactly that one segment.
C9_ResplitIsSegment == pc = "resplit" => reseg = <<seg>>

\* C9 as amended: splitting a non-empty segment the splitter returned succeeds
\* and returns exactly that one segment; splitting an empty segment returns the
\* empty list.
C9_ResplitNonEmptySegment ==
    pc = "resplit" => reseg = IF seg = <<>> THEN <<>> ELSE <<seg>>

\* a segment holding an enclosed comma, one of several, was split again
C9_Witness ==
    /\ pc = "resplit"
    /\ Len(args_list) >= 2
    /\ Contains(seg, <<",">>)
    /\ reseg = <<seg>>

\* C10: the colon and the equals at which a segment is cut are top-level
\* positions of the segment, enclosed by no quote or bracket pair.
C10_SeparatorsTopLevel ==
    pc = "classified" =>
        LET arg == args_list[1]
        IN  /\ arg_type_list[1] # None => ~Enclosed(arg, FirstOf(arg, ":"))
            /\ arg_value_list[1] # None => ~Enclosed(arg, FirstOf(arg, "="))

====
